---- MODULE Spec2Model ----
(***************************************************************************)
(* Model of scripts/generateClangFormatChecksLayout.py.                    *)
(*                                                                         *)
(* A Python string is a sequence of text pieces (tokens); "+" and "+=" on  *)
(* strings are \o, "" is <<>>.  A literal is cut into pieces only at the   *)
(* places where the code concatenates, and before every line end, which    *)
(* is the piece NL.  An identifier taken from the parsed header (a field   *)
(* name, a type name) is one piece; an enum value name is a sequence of    *)
(* one-character pieces, because the code splits it at "_".                *)
(* Python's None is <<>>, and a value returned in its place is wrapped in  *)
(* a one-element sequence.  An operator that can raise returns either its  *)
(* value or a record [exc |-> name of the exception].                      *)
(***************************************************************************)
EXTENDS Integers, Sequences, FiniteSets, TLC

\* ---------------------------------------------------------------- bounds
MaxFields == 2      \* public fields of FormatStyle in an input header
MaxRuns == 2        \* invocations of the script in one behaviour

VARIABLES pc, options_header, files, cppHeader, enums, structs, variables,
          header, source, layout, exc, runs, before

vars == <<pc, options_header, files, cppHeader, enums, structs, variables,
          header, source, layout, exc, runs, before>>

NL == "\n"

\* ------------------------------------------------------- Python helpers
Raised(r) == "exc" \in DOMAIN r

\* str.split(sep) for a one-character separator
RECURSIVE split(_, _)
split(s, sep) ==
    IF \E i \in DOMAIN s : s[i] = sep
    THEN LET i == CHOOSE k \in DOMAIN s :
                      /\ s[k] = sep
                      /\ \A j \in 1..(k - 1) : s[j] # sep
         IN <<SubSeq(s, 1, i - 1)>> \o split(SubSeq(s, i + 1, Len(s)), sep)
    ELSE <<s>>

\* ---------------------------------------------------------- templates
full_header_content(header_code) ==
    <<"// Copyright (C) 2022 The Qt Company Ltd.\n// SPDX-License-Identifier: LicenseRef-Qt-Commercial OR GPL-3.0+ OR GPL-3.0 WITH Qt-GPL-exception-1.0\n\n// THIS FILE IS AUTOMATICALLY GENERATED. DO NOT EDIT!\n\n#pragma once\n\n#include <QWidget>\n\nQT_BEGIN_NAMESPACE\nclass QCheckBox;\nclass QComboBox;\nclass QLabel;\nclass QLineEdit;\nclass QPlainTextEdit;\nclass QPushButton;\nclass QWidget;\nQT_END_NAMESPACE\n\nnamespace ClangFormat {\n\nclass ClangFormatChecks : public QWidget\n{\n    Q_OBJECT\npublic:\n    ClangFormatChecks(QWidget *parent = nullptr);\n\nprivate:\n">>
    \o header_code
    \o <<"\n};\n\n} //ClangFormat\n">>

full_source_content(source_code, layout_code) ==
    <<"// Copyright (C) 2022 The Qt Company Ltd.\n// SPDX-License-Identifier: LicenseRef-Qt-Commercial OR GPL-3.0+ OR GPL-3.0 WITH Qt-GPL-exception-1.0\n\n// THIS FILE IS AUTOMATICALLY GENERATED. DO NOT EDIT!\n\n#include \"clangformatchecks.h\"\n\n#include <utils/layoutbuilder.h>\n\n#include <QCheckBox>\n#include <QComboBox>\n#include <QLabel>\n#include <QLineEdit>\n#include <QPlainTextEdit>\n#include <QPushButton>\n#include <QWidget>\n\nusing namespace Utils;\n\nusing namespace ClangFormat;\n\nClangFormatChecks::ClangFormatChecks(QWidget *parent)\n    : QWidget(parent)\n{\n">>
    \o source_code
    \o <<"\n    using namespace Layouting;\n\n    Form {\n">>
    \o layout_code
    \o <<"    }.attachTo(this);\n}\n">>

\* ---------------------------------------------------------- Combobox UI
combobox_header(name) ==
    <<"    QComboBox *m_">> \o name \o <<" = nullptr;", NL>>

RECURSIVE combobox_list(_)
combobox_list(values) ==
    IF values = <<>> THEN <<>>
    ELSE <<"\"">> \o Head(values) \o <<"\",">> \o combobox_list(Tail(values))

combobox_source(name, values, offset) ==
    <<"    m_">> \o name \o <<" = new QComboBox(this);", NL>>
    \o <<"    m_">> \o name \o <<"->addItems({">> \o combobox_list(values) \o <<"});", NL>>
    \o <<"    m_">> \o name \o <<"->setObjectName(\"">> \o name \o <<"\");", NL, NL>>

\* variant: the bool combobox has no Default item
combobox_source_bool_no_default(name, offset) ==
    combobox_source(name, << <<"true">>, <<"false">> >>, offset)

combobox_source_bool(name, offset) ==
    combobox_source(name, << <<"Default">>, <<"true">>, <<"false">> >>, offset)

combobox_layout(name, offset) ==
    <<"        new QLabel(\"">> \o offset \o name \o <<"\"), m_">> \o name \o <<", br,", NL>>

\* ------------------------------------------------------------ String UI
string_header(name) ==
    <<"    QLineEdit *m_">> \o name \o <<" = nullptr;", NL>>
    \o <<"    QPushButton *m_set">> \o name \o <<" = nullptr;", NL>>

\* variant: the button gets the entry's object name
string_source_one_object_name(name, offset) ==
    <<"    m_">> \o name \o <<" = new QLineEdit(this);", NL>>
    \o <<"    m_">> \o name \o <<"->setObjectName(\"">> \o name \o <<"\");", NL>>
    \o <<"    m_set">> \o name \o <<" = new QPushButton(\"Set\", this);", NL, NL>>
    \o <<"    m_set">> \o name \o <<"->setObjectName(\"">> \o name \o <<"\");", NL>>

string_source(name, offset) ==
    <<"    m_">> \o name \o <<" = new QLineEdit(this);", NL>>
    \o <<"    m_">> \o name \o <<"->setObjectName(\"">> \o name \o <<"\");", NL>>
    \o <<"    m_set">> \o name \o <<" = new QPushButton(\"Set\", this);", NL, NL>>
    \o <<"    m_set">> \o name \o <<"->setObjectName(\"set">> \o name \o <<"\");", NL>>

string_layout(name, offset) ==
    <<"        new QLabel(\"">> \o offset \o name \o <<"\"), Row {m_">> \o name
    \o <<", m_set">> \o name \o <<"}, br,", NL>>

\* ------------------------------------------------------------ Vector UI
vector_header(name) ==
    <<"    QPlainTextEdit *m_">> \o name \o <<" = nullptr;", NL>>
    \o <<"    QPushButton *m_set">> \o name \o <<" = nullptr;", NL>>

vector_source(name, offset) ==
    <<"    m_">> \o name \o <<" = new QPlainTextEdit(this);", NL>>
    \o <<"    m_">> \o name \o <<"->setObjectName(\"">> \o name \o <<"\");", NL>>
    \o <<"    m_">> \o name \o <<"->setFixedHeight(100);", NL>>
    \o <<"    m_set">> \o name \o <<" = new QPushButton(\"Set\", this);", NL, NL>>
    \o <<"    m_set">> \o name \o <<"->setObjectName(\"set">> \o name \o <<"\");", NL>>

vector_layout(name, offset) ==
    <<"        new QLabel(\"">> \o offset \o name \o <<"\"), Row {m_">> \o name
    \o <<", m_set">> \o name \o <<"}, br,", NL>>

\* -------------------------------------------------------- Struct Layout
struct_layout(name, offset) ==
    <<"        new QLabel(\"">> \o offset \o name \o <<"\"), br,", NL>>

\* in_list: the first element whose name is type, wrapped; <<>> for None
in_list(list, type) ==
    IF \E i \in DOMAIN list : list[i].name = type
    THEN << list[CHOOSE i \in DOMAIN list :
                    /\ list[i].name = type
                    /\ \A j \in 1..(i - 1) : list[j].name # type] >>
    ELSE <<>>

\* ------------------------------------------- create_private_variables
\* variant: the marker is looked for at the start of the comment only
is_deprecated_at_start(variable) ==
    IF "doxygen" \in DOMAIN variable
    THEN variable.doxygen # <<>> /\ variable.doxygen[1] = "**deprecated**"
    ELSE FALSE

\* the test at the top of the loop body
is_deprecated(variable) ==
    IF "doxygen" \in DOMAIN variable
    THEN \E k \in DOMAIN variable.doxygen : variable.doxygen[k] = "**deprecated**"
    ELSE FALSE

\* variant: the BasedOnStyle combobox is not guarded
is_root_call_unguarded(offset) == TRUE

\* the test that guards the BasedOnStyle combobox
is_root_call(offset) == offset = <<>>

\* the fragments a call starts with
initial_fragments(offset) ==
    IF is_root_call(offset)
    THEN [header |-> combobox_header(<<"BasedOnStyle">>),
          source |-> combobox_source(<<"BasedOnStyle">>,
                        << <<"LLVM">>, <<"Google">>, <<"Chromium">>, <<"Mozilla">>,
                           <<"WebKit">>, <<"Microsoft">>, <<"GNU">> >>, offset),
          layout |-> combobox_layout(<<"BasedOnStyle">>, offset)]
    ELSE [header |-> <<>>, source |-> <<>>, layout |-> <<>>]

\* the offset argument of the recursive call
recursive_offset(offset) == <<"  ">>

\* [value["name"].split("_")[1] for value in enum["values"]]
enum_labels(enum) ==
    IF \E i \in DOMAIN enum.values : Len(split(enum.values[i].name, "_")) < 2
    THEN [exc |-> "IndexError"]
    ELSE [labels |-> [i \in DOMAIN enum.values |-> split(enum.values[i].name, "_")[2]]]

\* variant: the struct test comes before the enum test
branch_struct_first(enum, struct, type) ==
    IF struct # <<>> THEN "struct"
    ELSE IF enum # <<>> THEN "enum"
    ELSE IF "std::string" = type \/ "unsigned" = type \/ "int" = type THEN "string"
    ELSE IF "std::vector<std::string >" = type THEN "vector"
    ELSE IF "bool" = type THEN "bool"
    ELSE "none"

\* the if/elif chain: which branch a declared type takes
branch(enum, struct, type) ==
    IF enum # <<>> THEN "enum"
    ELSE IF struct # <<>> THEN "struct"
    ELSE IF "std::string" = type \/ "unsigned" = type \/ "int" = type THEN "string"
    ELSE IF "std::vector<std::string >" = type THEN "vector"
    ELSE IF "bool" = type THEN "bool"
    ELSE "none"

add(acc, h, s, l) ==
    [header |-> acc.header \o h, source |-> acc.source \o s, layout |-> acc.layout \o l]

\* variant: the section row is added after the recursive call's rows
add_struct_row_last(acc, row, tmp) ==
    add(acc, tmp.header, tmp.source, tmp.layout \o row)

\* the struct branch: the section row, then what the recursive call returned
add_struct(acc, row, tmp) ==
    add(acc, tmp.header, tmp.source, row \o tmp.layout)

RECURSIVE create_private_variables(_, _, _, _), for_variable(_, _, _, _, _, _)

\* the loop "for variable in variables", from the i-th variable on, with the
\* fragments accumulated so far
for_variable(vs, i, acc, es, ss, offset) ==
    IF i > Len(vs) THEN acc
    ELSE IF is_deprecated(vs[i]) THEN for_variable(vs, i + 1, acc, es, ss, offset)
    ELSE
      LET type == vs[i].type
          name == <<vs[i].name>>
          enum == in_list(es, type)
          struct == in_list(ss, type)
          b == branch(enum, struct, type)
      IN  CASE b = "enum" ->
                 LET ls == enum_labels(enum[1])
                 IN  IF Raised(ls) THEN ls
                     ELSE for_variable(vs, i + 1,
                            add(acc, combobox_header(name),
                                     combobox_source(name, ls.labels, offset),
                                     combobox_layout(name, offset)),
                            es, ss, offset)
            [] b = "struct" ->
                 LET tmp == create_private_variables(struct[1].properties.public,
                                                     es, ss, recursive_offset(offset))
                 IN  IF Raised(tmp) THEN tmp
                     ELSE for_variable(vs, i + 1,
                            add_struct(acc, struct_layout(name, offset), tmp),
                            es, ss, offset)
            [] b = "string" ->
                 for_variable(vs, i + 1,
                    add(acc, string_header(name), string_source(name, offset),
                             string_layout(name, offset)),
                    es, ss, offset)
            [] b = "vector" ->
                 for_variable(vs, i + 1,
                    add(acc, vector_header(name), vector_source(name, offset),
                             vector_layout(name, offset)),
                    es, ss, offset)
            [] b = "bool" ->
                 for_variable(vs, i + 1,
                    add(acc, combobox_header(name), combobox_source_bool(name, offset),
                             combobox_layout(name, offset)),
                    es, ss, offset)
            [] OTHER -> for_variable(vs, i + 1, acc, es, ss, offset)

create_private_variables(vs, es, ss, offset) ==
    for_variable(vs, 1, initial_fragments(offset), es, ss, offset)


\* ------------------------------------------------------------- inputs
\* what CppHeaderParser yields for the header file given on the command line
chars_BS_X == <<"B", "S", "_", "X">>
chars_BS_Y == <<"B", "S", "_", "Y">>
chars_LK_Foo_Bar == <<"L", "K", "_", "F", "o", "o", "_", "B", "a", "r">>
chars_None == <<"N", "o", "n", "e">>
chars_B_Z == <<"B", "_", "Z">>

PlainDoxygen == <<"/// ", "\\brief", " an option">>
DeprecatedDoxygen == <<"/// This option is ", "**deprecated**", ".">>

EnumTable ==
    << [name |-> "E", values |-> << [name |-> chars_BS_X], [name |-> chars_BS_Y] >>],
       [name |-> "L", values |-> << [name |-> chars_LK_Foo_Bar] >>],
       [name |-> "N", values |-> << [name |-> chars_BS_X], [name |-> chars_None] >>],
       [name |-> "B", values |-> << [name |-> chars_B_Z] >>] >>

StructTable ==
    << [name |-> "S", properties |-> [public |->
            << [name |-> "Inner", type |-> "int"],
               [name |-> "InnerOld", type |-> "E", doxygen |-> DeprecatedDoxygen],
               [name |-> "InnerFlag", type |-> "bool", doxygen |-> PlainDoxygen] >>]],
       [name |-> "T", properties |-> [public |->
            << [name |-> "Sub", type |-> "S"],
               [name |-> "Gone", type |-> "S", doxygen |-> DeprecatedDoxygen],
               [name |-> "Tail", type |-> "std::string"] >>]],
       [name |-> "B", properties |-> [public |->
            << [name |-> "BField", type |-> "bool"] >>]] >>

FieldNames == <<"Foo", "Bar", "Baz", "Qux", "Quux">>

TypeNames == {"bool", "int", "unsigned", "std::string", "std::vector<std::string >",
              "double", "E", "L", "N", "S", "T", "B"}

\* a field's declared type and doxygen comment: 0 none, 1 plain, 2 deprecated
FieldShapes ==
    (TypeNames \X {0})
    \cup ({"bool", "S"} \X {1})
    \cup ({"bool", "int", "std::vector<std::string >", "E", "N", "S", "T"} \X {2})

Field(name, shape) ==
    IF shape[2] = 0 THEN [name |-> name, type |-> shape[1]]
    ELSE [name |-> name, type |-> shape[1],
          doxygen |-> IF shape[2] = 1 THEN PlainDoxygen ELSE DeprecatedDoxygen]

FieldLists ==
    UNION { { [i \in 1..n |-> Field(FieldNames[i], f[i])] : f \in [1..n -> FieldShapes] }
            : n \in 0..MaxFields }

ClassOf(fields) ==
    [enums |-> [public |-> EnumTable],
     nested_classes |-> StructTable,
     properties |-> [public |-> fields]]

Headers ==
    { [parses |-> FALSE, classes |-> <<>>] }
    \cup { [parses |-> TRUE, classes |-> [c \in {"Other"} |-> ClassOf(<<>>)]] }
    \cup { [parses |-> TRUE, classes |-> [c \in {"FormatStyle"} |-> ClassOf(fs)]]
           : fs \in FieldLists }

NoFile == [exists |-> FALSE, content |-> <<>>]
StaleFile == [exists |-> TRUE, content |-> <<"// hand-edited", NL>>]

\* ------------------------------------------------------------- main
Unset == <<>>

Init ==
    /\ pc = "start"
    /\ options_header \in Headers
    /\ files \in { [source_path |-> f, header_path |-> f] : f \in {NoFile, StaleFile} }
    /\ cppHeader = Unset
    /\ enums = Unset
    /\ structs = Unset
    /\ variables = Unset
    /\ header = Unset
    /\ source = Unset
    /\ layout = Unset
    /\ exc = "none"
    /\ runs = 1
    /\ before = files

\* variant: the file is opened for appending
write_file_append(old, text) == [exists |-> TRUE, content |-> old.content \o text]

\* open(path, 'w') followed by f.write(text)
write_file(old, text) == [exists |-> TRUE, content |-> text]

\* header = CppHeaderParser.CppHeader(arguments.options_header)
ParseHeader ==
    /\ pc = "start"
    /\ options_header.parses
    /\ cppHeader' = options_header
    /\ pc' = "parsed"
    /\ UNCHANGED <<options_header, files, enums, structs, variables,
                   header, source, layout, exc, runs, before>>

ParseHeaderRaises ==
    /\ pc = "start"
    /\ ~options_header.parses
    /\ pc' = "error"
    /\ exc' = "CppParseError"
    /\ UNCHANGED <<options_header, files, cppHeader, enums, structs, variables,
                   header, source, layout, runs, before>>

\* the three lookups in header.classes["FormatStyle"]
LookupFormatStyle ==
    /\ pc = "parsed"
    /\ "FormatStyle" \in DOMAIN cppHeader.classes
    /\ enums' = cppHeader.classes["FormatStyle"].enums.public
    /\ structs' = cppHeader.classes["FormatStyle"].nested_classes
    /\ variables' = cppHeader.classes["FormatStyle"].properties.public
    /\ pc' = "looked_up"
    /\ UNCHANGED <<options_header, files, cppHeader, header, source, layout,
                   exc, runs, before>>

LookupFormatStyleRaises ==
    /\ pc = "parsed"
    /\ "FormatStyle" \notin DOMAIN cppHeader.classes
    /\ pc' = "error"
    /\ exc' = "KeyError"
    /\ UNCHANGED <<options_header, files, cppHeader, enums, structs, variables,
                   header, source, layout, runs, before>>

\* header, source, layout = create_private_variables(variables, enums, structs)
Generate ==
    /\ pc = "looked_up"
    /\ LET r == create_private_variables(variables, enums, structs, <<>>)
       IN  /\ ~Raised(r)
           /\ header' = r.header
           /\ source' = r.source
           /\ layout' = r.layout
    /\ pc' = "write_source"
    /\ UNCHANGED <<options_header, files, cppHeader, enums, structs, variables,
                   exc, runs, before>>

\* variant: the source file is opened for writing before the generation
GenerateRaises_output_opened ==
    /\ pc = "looked_up"
    /\ LET r == create_private_variables(variables, enums, structs, <<>>)
       IN  /\ Raised(r)
           /\ exc' = r.exc
    /\ files' = [files EXCEPT !.source_path = [exists |-> TRUE, content |-> <<>>]]
    /\ pc' = "error"
    /\ UNCHANGED <<options_header, cppHeader, enums, structs, variables,
                   header, source, layout, runs, before>>

GenerateRaises ==
    /\ pc = "looked_up"
    /\ LET r == create_private_variables(variables, enums, structs, <<>>)
       IN  /\ Raised(r)
           /\ exc' = r.exc
    /\ pc' = "error"
    /\ UNCHANGED <<options_header, files, cppHeader, enums, structs, variables,
                   header, source, layout, runs, before>>

WriteSource ==
    /\ pc = "write_source"
    /\ files' = [files EXCEPT !.source_path =
                    write_file(@, full_source_content(source, layout))]
    /\ pc' = "write_header"
    /\ UNCHANGED <<options_header, cppHeader, enums, structs, variables,
                   header, source, layout, exc, runs, before>>

\* open() fails and the file is as it was, or write() fails after open()
\* has truncated it
WriteSourceRaises ==
    /\ pc = "write_source"
    /\ \E truncated \in BOOLEAN :
          files' = IF truncated
                   THEN [files EXCEPT !.source_path = write_file(@, <<>>)]
                   ELSE files
    /\ pc' = "error"
    /\ exc' = "OSError"
    /\ UNCHANGED <<options_header, cppHeader, enums, structs, variables,
                   header, source, layout, runs, before>>

WriteHeader ==
    /\ pc = "write_header"
    /\ files' = [files EXCEPT !.header_path =
                    write_file(@, full_header_content(header))]
    /\ pc' = "done"
    /\ UNCHANGED <<options_header, cppHeader, enums, structs, variables,
                   header, source, layout, exc, runs, before>>

WriteHeaderRaises ==
    /\ pc = "write_header"
    /\ \E truncated \in BOOLEAN :
          files' = IF truncated
                   THEN [files EXCEPT !.header_path = write_file(@, <<>>)]
                   ELSE files
    /\ pc' = "error"
    /\ exc' = "OSError"
    /\ UNCHANGED <<options_header, cppHeader, enums, structs, variables,
                   header, source, layout, runs, before>>

\* the script is started again on the same header file; before records the
\* output files as the new run finds them
Rerun ==
    /\ pc = "done"
    /\ runs < MaxRuns
    /\ runs' = runs + 1
    /\ before' = files
    /\ pc' = "start"
    /\ cppHeader' = Unset
    /\ enums' = Unset
    /\ structs' = Unset
    /\ variables' = Unset
    /\ header' = Unset
    /\ source' = Unset
    /\ layout' = Unset
    /\ UNCHANGED <<options_header, files, exc>>

Next ==
    \/ ParseHeader
    \/ ParseHeaderRaises
    \/ LookupFormatStyle
    \/ LookupFormatStyleRaises
    \/ Generate
    \/ GenerateRaises
    \/ WriteSource
    \/ WriteSourceRaises
    \/ WriteHeader
    \/ WriteHeaderRaises
    \/ Rerun

Spec == Init /\ [][Next]_vars


\* ----------------------------------------------- reading the input model
Generated == pc \in {"write_source", "write_header", "done"}

Flagged(v) ==
    /\ "doxygen" \in DOMAIN v
    /\ "**deprecated**" \in { v.doxygen[k] : k \in DOMAIN v.doxygen }

IsEnumName(t) == \E i \in DOMAIN enums : enums[i].name = t
IsStructName(t) == \E i \in DOMAIN structs : structs[i].name = t

EnumValueNames(t) ==
    LET e == enums[CHOOSE i \in DOMAIN enums :
                      enums[i].name = t /\ \A j \in 1..(i - 1) : enums[j].name # t]
    IN  [i \in DOMAIN e.values |-> e.values[i].name]

StructFields(t) ==
    structs[CHOOSE i \in DOMAIN structs :
               structs[i].name = t /\ \A j \in 1..(i - 1) : structs[j].name # t]
        .properties.public

\* the category of a declared type, by the tests in their stated order
Category(t) ==
    CASE IsEnumName(t) -> "enum"
      [] ~IsEnumName(t) /\ IsStructName(t) -> "struct"
      [] ~IsEnumName(t) /\ ~IsStructName(t) /\ t \in {"std::string", "unsigned", "int"}
            -> "scalar"
      [] ~IsEnumName(t) /\ ~IsStructName(t) /\ t = "std::vector<std::string >" -> "list"
      [] ~IsEnumName(t) /\ ~IsStructName(t) /\ t = "bool" -> "bool"
      [] OTHER -> "unmatched"

\* the field tree in pre-order, without the fields flagged deprecated and
\* what lies below them; depth 0 is FormatStyle itself
RECURSIVE Visited(_, _)
Visited(vs, d) ==
    IF vs = <<>> THEN <<>>
    ELSE LET v == Head(vs)
             here == IF Flagged(v) THEN <<>>
                     ELSE <<[name |-> v.name, type |-> v.type,
                             cat |-> Category(v.type), depth |-> d]>>
                          \o (IF Category(v.type) = "struct"
                              THEN Visited(StructFields(v.type), d + 1)
                              ELSE <<>>)
         IN  here \o Visited(Tail(vs), d)

Vis == Visited(variables, 0)
VisIn(cats) == SelectSeq(Vis, LAMBDA f : f.cat \in cats)
NamesOf(fs) == [i \in DOMAIN fs |-> fs[i].name]

\* --------------------------------------------- reading the generated text
\* the lines of a text, each without its line end
Lines(s) ==
    LET ends == SelectSeq([i \in 1..Len(s) |-> i], LAMBDA i : s[i] = NL)
        start(k) == IF k = 1 THEN 1 ELSE ends[k - 1] + 1
        last == IF ends = <<>> THEN 0 ELSE ends[Len(ends)]
    IN  [k \in 1..Len(ends) |-> SubSeq(s, start(k), ends[k] - 1)]
        \o (IF last < Len(s) THEN <<SubSeq(s, last + 1, Len(s))>> ELSE <<>>)

\* a member declaration of the header fragment
Decl(line) ==
    [cls |-> CASE line[1] = "    QComboBox *m_" -> "QComboBox"
               [] line[1] = "    QLineEdit *m_" -> "QLineEdit"
               [] line[1] = "    QPlainTextEdit *m_" -> "QPlainTextEdit"
               [] line[1] = "    QPushButton *m_set" -> "QPushButton"
               [] OTHER -> "?",
     member |-> IF line[1] = "    QPushButton *m_set" THEN "m_set" ELSE "m_",
     name |-> line[2]]

HeaderDecls == LET ls == Lines(header) IN [i \in DOMAIN ls |-> Decl(ls[i])]

\* the items of an addItems call: "a","b",
RECURSIVE Items(_)
Items(s) ==
    IF s = <<>> THEN <<>>
    ELSE LET i == CHOOSE k \in DOMAIN s : s[k] = "\"," /\ \A j \in 1..(k - 1) : s[j] # "\","
         IN  <<SubSeq(s, 2, i - 1)>> \o Items(SubSeq(s, i + 1, Len(s)))

\* a statement of the construction fragment
Stmt(line) ==
    LET op == line[3]
        rest == SubSeq(line, 4, Len(line) - 1)
    IN  [target |-> IF line[1] = "    m_set" THEN "m_set" ELSE "m_",
         name |-> line[2],
         op |-> CASE op \in {" = new QComboBox(this);", " = new QLineEdit(this);",
                             " = new QPlainTextEdit(this);",
                             " = new QPushButton(\"Set\", this);"} -> "new"
                  [] op = "->addItems({" -> "addItems"
                  [] op \in {"->setObjectName(\"", "->setObjectName(\"set"} -> "setObjectName"
                  [] OTHER -> "other",
         arg |-> CASE op = " = new QComboBox(this);" -> <<"QComboBox">>
                   [] op = " = new QLineEdit(this);" -> <<"QLineEdit">>
                   [] op = " = new QPlainTextEdit(this);" -> <<"QPlainTextEdit">>
                   [] op = " = new QPushButton(\"Set\", this);" -> <<"QPushButton">>
                   [] op = "->addItems({" -> Items(rest)
                   [] op = "->setObjectName(\"" -> rest
                   [] op = "->setObjectName(\"set" -> <<"set">> \o rest
                   [] OTHER -> <<>>]

SourceStmts ==
    LET ls == SelectSeq(Lines(source), LAMBDA l : l # <<>>)
    IN  [i \in DOMAIN ls |-> Stmt(ls[i])]

\* a row of the layout fragment
LabelEnds == {"\"), m_", "\"), Row {m_", "\"), br,"}

Row(line) ==
    LET j == CHOOSE k \in DOMAIN line :
                 line[k] \in LabelEnds /\ \A i \in 1..(k - 1) : line[i] \notin LabelEnds
    IN  [name |-> line[j - 1],
         indent |-> SubSeq(line, 2, j - 2),
         kind |-> CASE line[j] = "\"), m_" -> "combobox"
                    [] line[j] = "\"), Row {m_" -> "row"
                    [] OTHER -> "section",
         widgets |-> SubSeq(line, j, Len(line))]

LayoutRows == LET ls == Lines(layout) IN [i \in DOMAIN ls |-> Row(ls[i])]

Indent(d) == [i \in 1..d |-> "  "]

Presets == << <<"LLVM">>, <<"Google">>, <<"Chromium">>, <<"Mozilla">>,
              <<"WebKit">>, <<"Microsoft">>, <<"GNU">> >>

Named(seq, n) == SelectSeq(seq, LAMBDA x : x.name = n)

RECURSIVE Flatten(_)
Flatten(ss) == IF ss = <<>> THEN <<>> ELSE Head(ss) \o Flatten(Tail(ss))


\* the part of an enum value name after its first underscore
AfterFirstUnderscore(n) ==
    IF \E i \in DOMAIN n : n[i] = "_"
    THEN LET i == CHOOSE k \in DOMAIN n : n[k] = "_" /\ \A j \in 1..(k - 1) : n[j] # "_"
         IN  SubSeq(n, i + 1, Len(n))
    ELSE n

AddItems == SelectSeq(SourceStmts, LAMBDA st : st.op = "addItems")

\* C1: generation never raises on an enum value name, and the combobox of
\* every visited enum field lists, in declaration order, each value name
\* without its first underscore-delimited segment (all the rest is kept).
C1_EnumItemsStripFirstSegment ==
    /\ exc # "IndexError"
    /\ Generated =>
         LET fields == Vis
             adds == AddItems
         IN  \A k \in DOMAIN fields :
                fields[k].cat = "enum" =>
                   LET want == [i \in DOMAIN EnumValueNames(fields[k].type) |->
                                   AfterFirstUnderscore(EnumValueNames(fields[k].type)[i])]
                       got == Named(adds, fields[k].name)
                   IN  /\ got # <<>>
                       /\ \A i \in DOMAIN got : got[i].arg = want

\* C2: the label of every layout row is indented by exactly as many units
\* as the struct-nesting depth of its field (root fields 0, fields of a
\* struct 1, fields of a struct inside a struct 2).
C2_IndentEqualsDepth ==
    Generated =>
       LET rows == Tail(LayoutRows)
           want == VisIn({"enum", "struct", "scalar", "list", "bool"})
       IN  /\ Len(rows) = Len(want)
           /\ \A k \in DOMAIN rows : rows[k].indent = Indent(want[k].depth)

\* C3: a field flagged deprecated adds nothing: the three fragments are
\* those produced from the same input without that field, whether the field
\* is a field of FormatStyle or of a nested struct.
Remove(seq, i) == SubSeq(seq, 1, i - 1) \o SubSeq(seq, i + 1, Len(seq))

C3_DeprecatedAddsNothing ==
    Generated =>
       LET out == [header |-> header, source |-> source, layout |-> layout]
       IN  /\ \A i \in DOMAIN variables :
                 Flagged(variables[i]) =>
                    create_private_variables(Remove(variables, i), enums, structs, <<>>) = out
           /\ \A s \in DOMAIN structs :
                 \A i \in DOMAIN structs[s].properties.public :
                    Flagged(structs[s].properties.public[i]) =>
                       create_private_variables(variables, enums,
                          [structs EXCEPT ![s].properties.public = Remove(@, i)], <<>>) = out

C3_Witness ==
    /\ Generated
    /\ \E i \in DOMAIN variables : Flagged(variables[i]) /\ variables[i].type = "S"
    /\ \E i \in DOMAIN variables : ~Flagged(variables[i]) /\ variables[i].type = "T"

\* C4: the BasedOnStyle combobox is emitted exactly once, as the first
\* entry of the declaration, construction and layout fragments; no
\* recursive call emits it again.
C4_BasedOnStyleOnceAndFirst ==
    Generated =>
      LET decls == HeaderDecls
          stmts == SourceStmts
          rows == LayoutRows
      IN
       /\ decls[1] = [cls |-> "QComboBox", member |-> "m_", name |-> "BasedOnStyle"]
       /\ SubSeq(stmts, 1, 3) =
            << [target |-> "m_", name |-> "BasedOnStyle", op |-> "new", arg |-> <<"QComboBox">>],
               [target |-> "m_", name |-> "BasedOnStyle", op |-> "addItems", arg |-> Presets],
               [target |-> "m_", name |-> "BasedOnStyle", op |-> "setObjectName",
                arg |-> <<"BasedOnStyle">>] >>
       /\ rows[1] = [name |-> "BasedOnStyle", indent |-> <<>>, kind |-> "combobox",
                     widgets |-> <<"\"), m_", "BasedOnStyle", ", br,">>]
       /\ Len(Named(decls, "BasedOnStyle")) = 1
       /\ Len(Named(stmts, "BasedOnStyle")) = 3
       /\ Len(Named(rows, "BasedOnStyle")) = 1

C4_Witness ==
    /\ Generated
    /\ \E k \in DOMAIN Vis : Vis[k].depth = 2

\* C5: the first matching test, in the order enum, struct, scalar, string
\* list, bool, decides what a field emits; a type that names both an enum
\* and a struct is an enum; a type matching no test emits nothing and
\* raises nothing.
WidgetClass(cat) ==
    CASE cat \in {"enum", "bool"} -> "QComboBox"
      [] cat = "scalar" -> "QLineEdit"
      [] cat = "list" -> "QPlainTextEdit"

RowKind(cat) ==
    CASE cat \in {"enum", "bool"} -> "combobox"
      [] cat \in {"scalar", "list"} -> "row"
      [] cat = "struct" -> "section"

C5_FirstMatchingTestDecides ==
    /\ (pc = "error" /\ exc = "IndexError") => VisIn({"enum"}) # <<>>
    /\ Generated =>
         LET fields == Vis
             widgets == SelectSeq(fields, LAMBDA f : f.cat \in {"enum", "scalar", "list", "bool"})
             rowed == SelectSeq(fields, LAMBDA f : f.cat # "unmatched")
             decls == Tail(SelectSeq(HeaderDecls, LAMBDA d : d.member = "m_"))
             news == Tail(SelectSeq(SourceStmts,
                                    LAMBDA st : st.op = "new" /\ st.target = "m_"))
             rows == Tail(LayoutRows)
         IN  /\ [k \in DOMAIN decls |-> <<decls[k].name, decls[k].cls>>]
                  = [k \in DOMAIN widgets |-> <<widgets[k].name, WidgetClass(widgets[k].cat)>>]
             /\ [k \in DOMAIN news |-> <<news[k].name, news[k].arg>>]
                  = [k \in DOMAIN widgets |-> <<widgets[k].name, <<WidgetClass(widgets[k].cat)>> >>]
             /\ [k \in DOMAIN rows |-> <<rows[k].name, rows[k].kind>>]
                  = [k \in DOMAIN rowed |-> <<rowed[k].name, RowKind(rowed[k].cat)>>]

C5_Witness ==
    /\ Generated
    /\ \E i \in DOMAIN variables : ~Flagged(variables[i]) /\ variables[i].type = "B"
    /\ \E i \in DOMAIN variables : ~Flagged(variables[i]) /\ variables[i].type = "double"

\* C6: a visited scalar or string-list field X declares exactly the two
\* members m_X and m_setX, constructs both with the object names X and
\* setX, and has one layout row, labelled X after indentation only, that
\* holds m_X and m_setX.
C6_EntryAndCommitButton ==
    Generated =>
      LET edits == VisIn({"scalar", "list"})
          decls == HeaderDecls
          stmts == SelectSeq(SourceStmts, LAMBDA st : st.op \in {"new", "setObjectName"})
          rows == LayoutRows
      IN
       \A X \in { edits[k].name : k \in DOMAIN edits } :
          LET occ == Named(edits, X)
              mine == Named(rows, X)
          IN  /\ Named(decls, X)
                   = Flatten([k \in DOMAIN occ |->
                        << [cls |-> WidgetClass(occ[k].cat), member |-> "m_", name |-> X],
                           [cls |-> "QPushButton", member |-> "m_set", name |-> X] >>])
              /\ Named(stmts, X)
                   = Flatten([k \in DOMAIN occ |->
                        << [target |-> "m_", name |-> X, op |-> "new",
                            arg |-> <<WidgetClass(occ[k].cat)>>],
                           [target |-> "m_", name |-> X, op |-> "setObjectName",
                            arg |-> <<X>>],
                           [target |-> "m_set", name |-> X, op |-> "new",
                            arg |-> <<"QPushButton">>],
                           [target |-> "m_set", name |-> X, op |-> "setObjectName",
                            arg |-> <<"set", X>>] >>])
              /\ Len(mine) = Len(occ)
              /\ \A k \in DOMAIN mine :
                    /\ mine[k].kind = "row"
                    /\ mine[k].widgets = <<"\"), Row {m_", X, ", m_set", X, "}, br,">>
                    /\ \A i \in DOMAIN mine[k].indent : mine[k].indent[i] = "  "

C6_Witness ==
    /\ Generated
    /\ \E k \in DOMAIN Vis : Vis[k].cat = "list" /\ Vis[k].depth = 0
    /\ \E k \in DOMAIN Vis : Vis[k].cat = "scalar" /\ Vis[k].depth = 2

\* C7: the combobox of a visited bool field lists exactly Default, true,
\* false, in that order, whatever the field's name and depth.
C7_BoolItems ==
    Generated =>
       LET fields == Vis
           adds == AddItems
       IN  \A k \in DOMAIN fields :
              fields[k].cat = "bool" =>
                 LET got == Named(adds, fields[k].name)
                 IN  /\ got # <<>>
                     /\ \A i \in DOMAIN got :
                           got[i].arg = << <<"Default">>, <<"true">>, <<"false">> >>

C7_Witness ==
    /\ Generated
    /\ \E k \in DOMAIN Vis : Vis[k].cat = "bool" /\ Vis[k].depth = 0
    /\ \E k \in DOMAIN Vis : Vis[k].cat = "bool" /\ Vis[k].depth = 2

\* C8: a second run on the same header leaves both output files with the
\* bytes the first run wrote, whatever the files held before the first run.
C8_SecondRunSameBytes ==
    (pc = "done" /\ runs > 1) => files = before

C8_Witness ==
    /\ pc = "done"
    /\ runs = 2
    /\ Len(Vis) >= 2

\* C9: after the BasedOnStyle row the layout rows follow the field tree in
\* pre-order; a struct field is one section row right before the rows of
\* its fields and has no declaration and no construction statement; the
\* declarations and the constructions list the fields in the layout's order.
C9_PreOrder ==
    Generated =>
       LET rows == Tail(LayoutRows)
           want == VisIn({"enum", "struct", "scalar", "list", "bool"})
           controls == SelectSeq(rows, LAMBDA r : r.kind # "section")
           decls == Tail(SelectSeq(HeaderDecls, LAMBDA d : d.member = "m_"))
           news == Tail(SelectSeq(SourceStmts,
                                  LAMBDA st : st.op = "new" /\ st.target = "m_"))
       IN  /\ NamesOf(rows) = NamesOf(want)
           /\ \A k \in DOMAIN rows : (rows[k].kind = "section") = (want[k].cat = "struct")
           /\ NamesOf(decls) = NamesOf(controls)
           /\ NamesOf(news) = NamesOf(controls)

C9_Witness ==
    /\ Generated
    /\ Len(variables) >= 2
    /\ ~Flagged(variables[1]) /\ variables[1].type = "T"
    /\ ~Flagged(variables[2]) /\ variables[2].type = "bool"

\* C10: the output files are as the run found them until parsing, the
\* lookup of FormatStyle and the generation have all succeeded, and stay
\* so when one of them raises; a run that completes has written both.
C10_OutputOnlyAfterGeneration ==
    /\ (\/ pc \in {"start", "parsed", "looked_up", "write_source"}
        \/ pc = "error" /\ exc \in {"CppParseError", "KeyError", "IndexError"})
         => files = before
    /\ pc = "done" =>
         /\ files.source_path = [exists |-> TRUE,
                                 content |-> full_source_content(source, layout)]
         /\ files.header_path = [exists |-> TRUE,
                                 content |-> full_header_content(header)]

C10_Witness ==
    /\ pc = "error"
    /\ exc = "IndexError"
    /\ files.source_path = StaleFile
    /\ files.header_path = StaleFile

====
